---------------------------- MODULE Spec2Model ----------------------------
(***************************************************************************)
(* Live-dissemination engine of the air-quality backend: the connection   *)
(* registry (api/websocket.py, ConnectionManager), the per-connection      *)
(* handler (main.py, websocket_endpoint), the periodic broadcast task      *)
(* (main.py, broadcast_updates) and its cancellation at shutdown           *)
(* (main.py, lifespan).                                                    *)
(*                                                                         *)
(* Scheduling is asyncio's: one task runs at a time and control changes    *)
(* hands only at an await that suspends.  The handler's steps below each   *)
(* run from one await to the next.  The broadcast task is cut into smaller *)
(* steps that follow the source lines; the steps between two of its awaits *)
(* cannot be interleaved (every other task's action is guarded by          *)
(* SchedSuspended).                                                        *)
(*                                                                         *)
(* Environment (Starlette's WebSocket, not part of the repository): a      *)
(* channel is "open" or "closed", closing is permanent, a send on an open  *)
(* channel succeeds and a send or accept on a closed one raises.           *)
(* CancelledError is a BaseException (Python >= 3.8): "except Exception"   *)
(* does not catch it.                                                      *)
(***************************************************************************)
EXTENDS Integers, Sequences, FiniteSets, TLC

\* Number of websocket clients that may connect during a run.
NumConns == 2

Conns == 1..NumConns

VARIABLES
    active_connections,  \* ConnectionManager.active_connections (a Python list)
    hpc,                 \* position of each websocket_endpoint coroutine
    chan,                \* state of each client's channel (environment)
    spc,                 \* position of the broadcast_updates task
    idx,                 \* list-iterator index of "for connection in self.active_connections"
    disconnected,        \* the local list "disconnected" of broadcast()
    msgType,             \* "type" of the message of the broadcast pass in progress
    app,                 \* lifespan: running, stopping (cancel() called), stopped
    event,               \* observation: what the last step did, <<kind, connection>>
    passStart,           \* observation: connections registered when the pass began
    passSends,           \* observation: connections the pass called send_json on, in order
    passFailed,          \* observation: connections whose send raised in the pass
    passLeft,            \* observation: connections whose handler left during the pass
    cycleLog,            \* observation: what the current scheduler cycle has done so far
    cycleFound,          \* observation: did the cycle's check find a connection
    evicted,             \* observation: connections removed by a broadcast's clean-up
    call,                \* services: the arguments of the service call under study
    returned,            \* services: what the calls made so far returned, in call order
    model,               \* AirQualityModel.model: "None" or "trained" (loaded)
    artifact,            \* environment: does the file at model_path exist
    clock,               \* environment: the wall clock, in hours since a Monday 00:00
    readings_file        \* HistoricalDatabase: the lines of historical_readings.jsonl

liveVars == <<active_connections, hpc, chan, spc, idx, disconnected, msgType, app,
              event, passStart, passSends, passFailed, passLeft, cycleLog, cycleFound, evicted>>

svcVars == <<call, returned, model, artifact, clock, readings_file>>

vars == <<liveVars, svcVars>>

regVars == <<active_connections, hpc, chan>>
schedVars == <<spc, idx, disconnected, msgType>>
passObs == <<passStart, passSends, passFailed, passLeft>>
cycleObs == <<cycleLog, cycleFound>>

----------------------------------------------------------------------------
(* Python list helpers *)

Range(s) == {s[i] : i \in 1..Len(s)}

Count(s, x) == Cardinality({i \in 1..Len(s) : s[i] = x})

\* Index of the first occurrence of x in s, 0 when absent.
FirstIndex(s, x) ==
    IF x \in Range(s) THEN CHOOSE i \in 1..Len(s) : s[i] = x /\ \A j \in 1..(i-1) : s[j] # x
    ELSE 0

\* list.remove(x) on a list that holds x: drops the first occurrence.
ListRemove(s, x) ==
    LET k == FirstIndex(s, x)
    IN SubSeq(s, 1, k - 1) \o SubSeq(s, k + 1, Len(s))

\* list.remove(x) raises ValueError when x is not in the list.
RemoveRaises(s, x) == x \notin Range(s)

----------------------------------------------------------------------------
(* ConnectionManager *)

\* A registration that loses the ones made before it.
connectDropsOthers(conns, c) == <<c>>

\* connect(), after "await websocket.accept()" has returned: append.
connect(conns, c) == Append(conns, c)

\* A disconnect that forgets to take the connection out of the list.
disconnectKeeps(conns, c) == conns

\* disconnect(): self.active_connections.remove(websocket), when it does not raise.
disconnect(conns, c) == ListRemove(conns, c)

\* A clean-up that drops nothing.
CleanUpKeepsAll(conns, failed) == [list |-> conns, raised |-> FALSE]

\* The clean-up loop of broadcast(): remove each connection of "disconnected" in
\* order; the first ValueError aborts the loop and leaves the rest in the list.
RECURSIVE CleanUp(_, _)
CleanUp(conns, failed) ==
    IF failed = <<>> THEN [list |-> conns, raised |-> FALSE]
    ELSE IF RemoveRaises(conns, Head(failed)) THEN [list |-> conns, raised |-> TRUE]
    ELSE CleanUp(ListRemove(conns, Head(failed)), Tail(failed))

----------------------------------------------------------------------------
(* Scheduling *)

\* The broadcast task is suspended in an await (or over): another task may run.
SchedSuspended == spc \in {"delay", "interval", "await_send", "ended"}

\* A handler may take a step.  Once shutdown has begun the handlers' steps are
\* left out: they read and write nothing that the cancellation does.
HandlerMayRun == SchedSuspended /\ app = "running"

\* The services take no part in the live engine's runs: no call is under study.
ServicesIdle ==
    /\ call = <<>>
    /\ returned = <<>>
    /\ model = "None"
    /\ artifact = FALSE
    /\ clock = 0
    /\ readings_file = <<>>

\* The live engine after start-up: no connection, the broadcast task in its
\* first sleep.
LiveInit ==
    /\ active_connections = <<>>
    /\ hpc = [c \in Conns |-> "new"]
    /\ chan = [c \in Conns |-> "open"]
    /\ spc = "delay"
    /\ idx = 0
    /\ disconnected = <<>>
    /\ msgType = "none"
    /\ app = "running"
    /\ event = <<"init", 0>>
    /\ passStart = {}
    /\ passSends = <<>>
    /\ passFailed = {}
    /\ passLeft = {}
    /\ cycleLog = <<>>
    /\ cycleFound = FALSE
    /\ evicted = {}

Init == LiveInit /\ ServicesIdle

----------------------------------------------------------------------------
(* websocket_endpoint: one coroutine per client *)

\* A client opens a websocket: the endpoint starts and suspends in
\* "await websocket.accept()" inside manager.connect.
Accept(c) ==
    /\ HandlerMayRun
    /\ hpc[c] = "new"
    /\ hpc' = [hpc EXCEPT ![c] = "accepting"]
    /\ event' = <<"step", 0>>
    /\ UNCHANGED <<active_connections, chan, schedVars, app, passObs, cycleObs, evicted, svcVars>>

\* accept() returned: connect() appends, then the endpoint sends the
\* "connection" greeting and enters its receive loop.
Register(c) ==
    /\ HandlerMayRun
    /\ hpc[c] = "accepting"
    /\ chan[c] = "open"
    /\ active_connections' = connect(active_connections, c)
    /\ hpc' = [hpc EXCEPT ![c] = "open"]
    /\ event' = <<"connection", c>>
    /\ UNCHANGED <<chan, schedVars, app, passObs, cycleObs, evicted, svcVars>>

\* accept() raised (the client went away first): the exception leaves
\* websocket_endpoint before the connection was ever appended.
AcceptFail(c) ==
    /\ HandlerMayRun
    /\ hpc[c] = "accepting"
    /\ chan[c] = "closed"
    /\ hpc' = [hpc EXCEPT ![c] = "unaccepted"]
    /\ event' = <<"step", 0>>
    /\ UNCHANGED <<active_connections, chan, schedVars, app, passObs, cycleObs, evicted, svcVars>>

\* The two except clauses of websocket_endpoint: manager.disconnect(websocket),
\* after which the coroutine is over (and the server closes the socket).  A
\* ValueError raised by disconnect() escapes the endpoint.
HandlerLeaves(c) ==
    /\ chan' = [chan EXCEPT ![c] = "closed"]
    /\ IF RemoveRaises(active_connections, c)
       THEN /\ hpc' = [hpc EXCEPT ![c] = "crashed"]
            /\ event' = <<"leave_error", c>>
            /\ UNCHANGED <<active_connections, passLeft>>
       ELSE /\ active_connections' = disconnect(active_connections, c)
            /\ hpc' = [hpc EXCEPT ![c] = "left"]
            /\ event' = <<"step", 0>>
            /\ passLeft' = IF spc = "await_send" THEN passLeft \cup {c} ELSE passLeft
    /\ UNCHANGED <<schedVars, app, passStart, passSends, passFailed, cycleObs, evicted, svcVars>>

\* receive_text() returned a text: the endpoint echoes it back.
Receive(c) ==
    /\ HandlerMayRun
    /\ hpc[c] = "open"
    /\ chan[c] = "open"
    /\ event' = <<"echo", c>>
    /\ UNCHANGED <<regVars, schedVars, app, passObs, cycleObs, evicted, svcVars>>

\* A timeout that drops the idle connection instead of sending a heartbeat.
TimeoutDrops(c) ==
    /\ HandlerMayRun
    /\ hpc[c] = "open"
    /\ HandlerLeaves(c)

\* asyncio.wait_for timed out after 30 s: the endpoint sends a heartbeat and
\* waits again; when the send raises, the outer except clauses run.
Timeout(c) ==
    /\ HandlerMayRun
    /\ hpc[c] = "open"
    /\ IF chan[c] = "open"
       THEN /\ event' = <<"heartbeat", c>>
            /\ UNCHANGED <<regVars, schedVars, app, passObs, cycleObs, evicted, svcVars>>
       ELSE HandlerLeaves(c)

\* receive_text() raised WebSocketDisconnect: the client has gone.
Disconnected(c) ==
    /\ HandlerMayRun
    /\ hpc[c] = "open"
    /\ chan[c] = "closed"
    /\ HandlerLeaves(c)

\* receive_text() raised another exception on a live channel (a frame that
\* holds no text): "except Exception" runs.
ReceiveError(c) ==
    /\ HandlerMayRun
    /\ hpc[c] = "open"
    /\ chan[c] = "open"
    /\ HandlerLeaves(c)

\* Environment: the client drops its connection.
ClientClose(c) ==
    /\ HandlerMayRun
    /\ hpc[c] \in {"accepting", "open"}
    /\ chan[c] = "open"
    /\ chan' = [chan EXCEPT ![c] = "closed"]
    /\ event' = <<"step", 0>>
    /\ UNCHANGED <<active_connections, hpc, schedVars, app, passObs, cycleObs, evicted, svcVars>>

----------------------------------------------------------------------------
(* broadcast_updates: the background task *)

\* "await asyncio.sleep(10)" is over.
DelayDone ==
    /\ spc = "delay"
    /\ app = "running"
    /\ spc' = "check"
    /\ event' = <<"step", 0>>
    /\ UNCHANGED <<regVars, idx, disconnected, msgType, app, passObs, cycleObs, evicted, svcVars>>

\* "await asyncio.sleep(300)" is over: the next cycle.
IntervalDone ==
    /\ spc = "interval"
    /\ app = "running"
    /\ spc' = "check"
    /\ event' = <<"step", 0>>
    /\ UNCHANGED <<regVars, idx, disconnected, msgType, app, passObs, cycleObs, evicted, svcVars>>

\* "if manager.active_connections:" -- an empty list skips the cycle's body.
Check ==
    /\ spc = "check"
    /\ spc' = IF active_connections # <<>> THEN "grid" ELSE "end"
    /\ cycleFound' = (active_connections # <<>>)
    /\ cycleLog' = <<>>
    /\ event' = <<"step", 0>>
    /\ UNCHANGED <<regVars, idx, disconnected, msgType, app, passObs, evicted, svcVars>>

\* An exception that is not caught in the loop and ends the task.
CycleFaultEscapes(kind) ==
    /\ spc' = "ended"
    /\ cycleLog' = Append(cycleLog, "fault")
    /\ event' = <<kind, 0>>

\* An exception inside the cycle's try: "except Exception" prints it and the
\* loop goes on to "await asyncio.sleep(300)".
CycleFault(kind) ==
    /\ spc' = "end"
    /\ cycleLog' = Append(cycleLog, "fault")
    /\ event' = <<kind, 0>>

\* "grid_data = await prediction_service.get_full_grid()" returns or raises.
Grid ==
    /\ spc = "grid"
    /\ \/ /\ spc' = "aqi"
          /\ cycleLog' = Append(cycleLog, "grid")
          /\ event' = <<"step", 0>>
       \/ CycleFault("fault")
    /\ UNCHANGED <<regVars, idx, disconnected, msgType, app, passObs, cycleFound, evicted, svcVars>>

\* broadcast(message) begins: "disconnected = []" and a fresh list iterator.
StartPass(type) ==
    /\ msgType' = type
    /\ idx' = 0
    /\ disconnected' = <<>>
    /\ spc' = "loop"
    /\ cycleLog' = Append(cycleLog, type)
    /\ passStart' = Range(active_connections)
    /\ passSends' = <<>>
    /\ passFailed' = {}
    /\ passLeft' = {}
    /\ event' = <<"step", 0>>
    /\ UNCHANGED <<regVars, app, cycleFound, evicted, svcVars>>

\* The two broadcasts in the other order: the hotspot update goes out first.
BroadcastHotFirst ==
    /\ spc = "aqi"
    /\ StartPass("hotspot_update")

\* "await manager.broadcast_aqi_update(grid_data)".
BroadcastAqi ==
    /\ spc = "aqi"
    /\ StartPass("aqi_update")

\* "hotspots = await hotspot_service.get_hotspots()" returns or raises.
Hotspots ==
    /\ spc = "hotspots"
    /\ \/ /\ spc' = "hot"
          /\ cycleLog' = Append(cycleLog, "hotspots")
          /\ event' = <<"step", 0>>
       \/ CycleFault("fault")
    /\ UNCHANGED <<regVars, idx, disconnected, msgType, app, passObs, cycleFound, evicted, svcVars>>

\* "await manager.send_hotspot_update(hotspots)".
BroadcastHot ==
    /\ spc = "hot"
    /\ StartPass("hotspot_update")

\* One turn of "for connection in self.active_connections": the list iterator
\* reads the live list at its index, then "await connection.send_json(message)";
\* a send that raises appends the connection to "disconnected".
BroadcastSend ==
    /\ spc = "loop"
    /\ idx < Len(active_connections)
    /\ LET c == active_connections[idx + 1]
       IN /\ idx' = idx + 1
          /\ passSends' = Append(passSends, c)
          /\ IF chan[c] = "open"
             THEN /\ event' = <<msgType, c>>
                  /\ UNCHANGED <<disconnected, passFailed>>
             ELSE /\ event' = <<"send_fail", c>>
                  /\ disconnected' = Append(disconnected, c)
                  /\ passFailed' = passFailed \cup {c}
    /\ spc' = "await_send"
    /\ UNCHANGED <<regVars, msgType, app, passStart, passLeft, cycleObs, evicted, svcVars>>

\* send_json returned (or its exception was caught): back to the loop head.
SendResume ==
    /\ spc = "await_send"
    /\ app = "running"
    /\ spc' = "loop"
    /\ event' = <<"step", 0>>
    /\ UNCHANGED <<regVars, idx, disconnected, msgType, app, passObs, cycleObs, evicted, svcVars>>

\* The iterator is exhausted: the for loop ends.
BroadcastLoopEnd ==
    /\ spc = "loop"
    /\ idx >= Len(active_connections)
    /\ spc' = "cleanup"
    /\ event' = <<"step", 0>>
    /\ UNCHANGED <<regVars, idx, disconnected, msgType, app, passObs, cycleObs, evicted, svcVars>>

\* "for connection in disconnected: self.active_connections.remove(connection)",
\* after which broadcast() returns and its locals are gone.  A ValueError leaves
\* broadcast() and is caught by the cycle's except clause.  After the hotspot
\* pass the cycle prints its summary.
BroadcastCleanUp ==
    /\ spc = "cleanup"
    /\ LET r == CleanUp(active_connections, disconnected)
       IN /\ active_connections' = r.list
          /\ evicted' = evicted \cup (Range(active_connections) \ Range(r.list))
          /\ IF r.raised
             THEN CycleFault("cleanup_error")
             ELSE /\ event' = <<"cleanup", 0>>
                  /\ spc' = IF msgType = "aqi_update" THEN "hotspots" ELSE "end"
                  /\ cycleLog' = IF msgType = "aqi_update" THEN cycleLog
                                 ELSE Append(cycleLog, "done")
    /\ idx' = 0
    /\ disconnected' = <<>>
    /\ msgType' = "none"
    /\ UNCHANGED <<hpc, chan, app, passObs, cycleFound, svcVars>>

\* The cycle is over (its body ran, was skipped, or faulted): the loop is about
\* to suspend in "await asyncio.sleep(300)".  The per-cycle observations end
\* here; only whether the cycle faulted is kept over the sleep.
EndCycle ==
    /\ spc = "end"
    /\ spc' = "interval"
    /\ cycleLog' = IF cycleLog # <<>> /\ cycleLog[Len(cycleLog)] = "fault"
                   THEN <<"fault">> ELSE <<>>
    /\ cycleFound' = FALSE
    /\ passStart' = {}
    /\ passSends' = <<>>
    /\ passFailed' = {}
    /\ passLeft' = {}
    /\ event' = <<"step", 0>>
    /\ UNCHANGED <<regVars, idx, disconnected, msgType, app, evicted, svcVars>>

----------------------------------------------------------------------------
(* lifespan: shutdown *)

\* "background_task.cancel()": the task will be resumed with CancelledError.
Shutdown ==
    /\ app = "running"
    /\ SchedSuspended
    /\ app' = "stopping"
    /\ event' = <<"step", 0>>
    /\ UNCHANGED <<regVars, schedVars, passObs, cycleObs, evicted, svcVars>>

\* A cancellation that the "except Exception" around send_json swallows (as it
\* would were CancelledError an Exception): the sending loop goes on.
CancelledSwallowed ==
    /\ app = "stopping"
    /\ spc \in {"delay", "interval", "await_send"}
    /\ spc' = IF spc = "await_send" THEN "loop" ELSE "ended"
    /\ event' = <<"step", 0>>
    /\ UNCHANGED <<regVars, idx, disconnected, msgType, app, passObs, cycleObs, evicted, svcVars>>

\* The task resumes with CancelledError at the await it is suspended in; no
\* "except Exception" catches it, "except asyncio.CancelledError" re-raises it.
Cancelled ==
    /\ app = "stopping"
    /\ spc \in {"delay", "interval", "await_send"}
    /\ spc' = "ended"
    /\ event' = <<"step", 0>>
    /\ UNCHANGED <<regVars, idx, disconnected, msgType, app, passObs, cycleObs, evicted, svcVars>>

\* "await background_task" raises CancelledError, which lifespan passes over.
ShutdownComplete ==
    /\ app = "stopping"
    /\ spc = "ended"
    /\ app' = "stopped"
    /\ event' = <<"step", 0>>
    /\ UNCHANGED <<regVars, schedVars, passObs, cycleObs, evicted, svcVars>>

----------------------------------------------------------------------------

Next ==
    \/ \E c \in Conns : Accept(c)
    \/ \E c \in Conns : Register(c)
    \/ \E c \in Conns : AcceptFail(c)
    \/ \E c \in Conns : Receive(c)
    \/ \E c \in Conns : Timeout(c)
    \/ \E c \in Conns : Disconnected(c)
    \/ \E c \in Conns : ReceiveError(c)
    \/ \E c \in Conns : ClientClose(c)
    \/ DelayDone
    \/ IntervalDone
    \/ Check
    \/ Grid
    \/ BroadcastAqi
    \/ Hotspots
    \/ BroadcastHot
    \/ BroadcastSend
    \/ SendResume
    \/ BroadcastLoopEnd
    \/ BroadcastCleanUp
    \/ EndCycle
    \/ Shutdown
    \/ Cancelled
    \/ ShutdownComplete

Spec == Init /\ [][Next]_vars

----------------------------------------------------------------------------
(* Observations shared by the properties *)

\* The message types a connection can be sent.
BroadcastTypes == {"aqi_update", "hotspot_update"}
MessageTypes == BroadcastTypes \cup {"connection", "echo", "heartbeat"}

\* The last step was the clean-up of a broadcast pass (it returned or raised).
PassOver == event[1] \in {"cleanup", "cleanup_error"}

\* Connections the pass sent the message to without an exception.
PassDelivered == Range(passSends) \ passFailed

----------------------------------------------------------------------------
(* C1 *)

\* C1: when a broadcast pass in which no handler left is over, every connection
\* registered at its start was sent the message once (the ones whose send did
\* not raise received it), the clean-up did not raise, every connection whose
\* send raised is out of the registry, every connection whose send succeeded
\* is still in it, and no broadcast send ever goes to a connection that a
\* clean-up removed.
C1_BroadcastIsolatesFailures ==
    /\ (PassOver /\ passLeft = {}) =>
          /\ event[1] = "cleanup"
          /\ \A c \in passStart : Count(passSends, c) = 1
          /\ passStart \ passFailed \subseteq PassDelivered
          /\ passFailed \cap Range(active_connections) = {}
          /\ PassDelivered \subseteq Range(active_connections)
    /\ \A c \in evicted :
          /\ c \notin Range(active_connections)
          /\ event[2] = c => event[1] \notin BroadcastTypes \cup {"send_fail"}

\* A pass over all the connections is over in which the first send raised:
\* the connections after it got the message and stay, the first one is gone.
C1_Witness ==
    /\ event[1] = "cleanup"
    /\ passLeft = {}
    /\ passStart = Conns
    /\ Len(passSends) = NumConns
    /\ passFailed = {passSends[1]}
    /\ active_connections = Tail(passSends)

----------------------------------------------------------------------------
(* C2 *)

\* C2: disconnect() of a connection that is not in the registry is a no-op: no
\* handler's disconnect() call ever raises.
C2_LeaveIsIdempotent ==
    \A c \in Conns : event # <<"leave_error", c>> /\ hpc[c] # "crashed"

----------------------------------------------------------------------------
(* C3 *)

\* C3: when a pass is over in which a connection whose send had raised left by
\* its own handler, the clean-up did not raise and every connection whose send
\* raised is out of the registry, each of them removed once.
C3_LeaveRacingBroadcast ==
    (PassOver /\ passFailed \cap passLeft # {}) =>
        /\ event[1] = "cleanup"
        /\ passFailed \cap Range(active_connections) = {}

----------------------------------------------------------------------------
(* C4 *)

\* C4: when the sending loop of a pass is over, every connection registered
\* from the start of the pass to its end was sent the message exactly once,
\* and no send of the pass goes to a connection that has left.
C4_EveryStayerSentOnce ==
    /\ spc = "cleanup" =>
          \A c \in (passStart \cap Range(active_connections)) \ passLeft :
              Count(passSends, c) = 1
    /\ (spc = "await_send" /\ event[1] \in BroadcastTypes \cup {"send_fail"}) =>
          event[2] \notin passLeft

----------------------------------------------------------------------------
(* C5 *)

\* C5: the registry holds no connection twice, and it holds exactly the
\* connections whose connect() has returned and that neither left nor were
\* removed by a broadcast's clean-up.
C5_JoinIsSafe ==
    /\ \A c \in Conns : Count(active_connections, c) <= 1
    /\ Range(active_connections) = {c \in Conns : hpc[c] = "open"} \ evicted

\* All the connections are registered, in another order than they were
\* created, while a broadcast pass is suspended in a send.
C5_Witness ==
    /\ Range(active_connections) = Conns
    /\ Len(active_connections) = NumConns
    /\ active_connections[1] # 1
    /\ spc = "await_send"

----------------------------------------------------------------------------
(* C6 *)

\* What a cycle that finds a connection and does not fault does, in order.
FullCycle == <<"grid", "aqi_update", "hotspots", "hotspot_update", "done">>

IsPrefix(a, b) == Len(a) <= Len(b) /\ SubSeq(b, 1, Len(a)) = a

Faulted(log) == log # <<>> /\ log[Len(log)] = "fault"

\* The cycle's log without the fault that ended it.
Done(log) == IF Faulted(log) THEN SubSeq(log, 1, Len(log) - 1) ELSE log

\* C6: what a cycle has done is always a prefix of: grid, aqi_update, hotspots,
\* hotspot_update (so no hotspot_update precedes the cycle's aqi_update, and a
\* message is sent only in the pass its type began); a cycle that found a
\* connection and did not fault ends having done all of it; a cycle that found
\* no connection ends having computed and broadcast nothing.
C6_GridThenHotspots ==
    /\ IsPrefix(Done(cycleLog), FullCycle)
    /\ (spc = "end" /\ cycleFound /\ ~Faulted(cycleLog)) => cycleLog = FullCycle
    /\ (spc = "end" /\ ~cycleFound) => cycleLog = <<>>
    /\ event[1] \in BroadcastTypes =>
          /\ cycleLog[Len(cycleLog)] = event[1]
          /\ "aqi_update" \in Range(cycleLog)

\* A cycle ends after both broadcasts, the second of which reached a connection.
C6_Witness ==
    /\ spc = "end"
    /\ cycleLog = FullCycle
    /\ passSends # <<>>
    /\ passFailed = {}

----------------------------------------------------------------------------
(* C7 *)

\* C7: a fault in a cycle (grid generation, hotspot detection, a broadcast)
\* leaves the loop at the end of that cycle, from where it goes to its interval
\* wait and, the wait over, to the next cycle; the task is over only once
\* shutdown has cancelled it.
C7_FaultDoesNotEndLoop ==
    /\ event[1] \in {"fault", "cleanup_error"} => (spc = "end" /\ Faulted(cycleLog))
    /\ spc = "end" => ENABLED EndCycle
    /\ (spc = "interval" /\ app = "running") => ENABLED IntervalDone
    /\ spc = "ended" => app # "running"

\* The loop is at the check of the cycle that follows a faulting one.
C7_Witness ==
    /\ spc = "check"
    /\ cycleLog = <<"fault">>

----------------------------------------------------------------------------
(* C8 *)

\* C8: once shutdown has called cancel(), the task is at one of its awaits
\* (initial delay, interval sleep, send_json) or over, its one next step is to
\* end there, after which shutdown can complete; shutdown is complete only
\* with the task over, and no broadcast send is made once the task is over.
C8_CooperativeCancellation ==
    /\ app = "stopping" => spc \in {"delay", "interval", "await_send", "ended"}
    /\ (app = "stopping" /\ spc # "ended") =>
          (ENABLED Cancelled /\ ~ENABLED SendResume /\ ~ENABLED IntervalDone /\ ~ENABLED DelayDone)
    /\ (app = "stopping" /\ spc = "ended") => ENABLED ShutdownComplete
    /\ app = "stopped" => spc = "ended"
    /\ spc = "ended" => event[1] \notin BroadcastTypes \cup {"send_fail"}

\* Shutdown is complete after a cancellation that found the task suspended in
\* a send of the hotspot pass.
C8_Witness ==
    /\ app = "stopped"
    /\ spc = "ended"
    /\ msgType = "hotspot_update"
    /\ passSends # <<>>

----------------------------------------------------------------------------
(* C9 *)

\* C9: a timeout of the wait of a connection whose channel is open sends that
\* connection a heartbeat, leaves the registry as it is, with the connection
\* in it, and leaves the handler in its receive loop; the timeout can be taken
\* whenever the broadcast task is suspended, wherever that is.
C9_IdleGetsHeartbeat ==
    /\ [][\A c \in Conns : (chan[c] = "open" /\ Timeout(c)) =>
              /\ event' = <<"heartbeat", c>>
              /\ active_connections' = active_connections
              /\ c \in Range(active_connections')
              /\ hpc'[c] = "open"]_vars
    /\ [](\A c \in Conns :
              (hpc[c] = "open" /\ chan[c] = "open" /\ app = "running" /\ SchedSuspended)
                  => ENABLED Timeout(c))
    /\ [](\A c \in Conns : event = <<"heartbeat", c>> =>
              (c \in Range(active_connections) /\ hpc[c] = "open"))

\* A heartbeat was sent while the broadcast task was suspended inside a pass.
C9_Witness ==
    /\ event[1] = "heartbeat"
    /\ spc = "await_send"
    /\ event[2] \in Range(active_connections)

----------------------------------------------------------------------------
(* C10 *)

\* The connection has been removed from the registry: by its handler's
\* disconnect() or by the clean-up of a broadcast.
Closed(c) == hpc[c] = "left" \/ c \in evicted

\* C10: a connection that has been removed from the registry is not in the
\* registry in any later state, and no later step delivers it a message of any
\* type.
C10_ClosedIsTerminal ==
    \A c \in Conns : Closed(c) =>
        /\ c \notin Range(active_connections)
        /\ ~(event[2] = c /\ event[1] \in MessageTypes)

\* A broadcast delivers a message to a connection that remains after another
\* connection has been removed by a clean-up.
C10_Witness ==
    /\ evicted # {}
    /\ event[1] \in BroadcastTypes
    /\ event[2] \in Range(active_connections)

----------------------------------------------------------------------------
(* HotspotService.get_hotspots (services/hotspot_service.py)               *)
(*                                                                         *)
(* A grid cell is [lat, lon, aqi].  Latitudes and longitudes are whole     *)
(* numbers of millionths of a degree.  A squared distance is taken on the  *)
(* differences in thousandths of a degree, so it is in millionths of a     *)
(* squared degree and the code's 0.01 is 10000.  An AQI value is a whole   *)
(* number of hundredths.                                                   *)

\* "cell['aqi'] > 200"
HighAqi == 200

\* "if len(hotspots) >= 5: break"
MaxHotspots == 5

\* "if dist < 0.01", in millionths of a squared degree
NearDist2 == 10000

\* "radius": 500
HotspotRadius == 500

\* "(cell['lat'] - existing['lat'])**2 + (cell['lon'] - existing['lon'])**2"
Dist2(a, b) ==
    ((a.lat - b.lat) \div 1000) * ((a.lat - b.lat) \div 1000)
        + ((a.lon - b.lon) \div 1000) * ((a.lon - b.lon) \div 1000)

\* "[cell for cell in grid if cell['aqi'] > 200]"
HighAqiCells(grid) == SelectSeq(grid, LAMBDA cell : cell.aqi > HighAqi * 100)

\* Where sorted(..., reverse=True) puts one more cell: behind every cell whose
\* AQI is at least its own (the sort is stable, equal keys keep their order).
RECURSIVE InsertDescending(_, _)
InsertDescending(sorted_cells, cell) ==
    IF sorted_cells = <<>> THEN <<cell>>
    ELSE IF Head(sorted_cells).aqi >= cell.aqi
         THEN <<Head(sorted_cells)>> \o InsertDescending(Tail(sorted_cells), cell)
         ELSE <<cell>> \o sorted_cells

\* A sort that leaves the cells in grid order.
NoSort(cells) == cells

\* "sorted(high_aqi_cells, key=lambda x: x['aqi'], reverse=True)"
RECURSIVE SortDescending(_)
SortDescending(cells) ==
    IF cells = <<>> THEN <<>>
    ELSE InsertDescending(SortDescending(SubSeq(cells, 1, Len(cells) - 1)),
                          cells[Len(cells)])

\* A proximity test that finds nothing near.
NeverNear(cell, added) == FALSE

\* A proximity test that asks for every taken cell to be near.
NearAll(cell, added) == \A k \in 1..Len(added) : Dist2(cell, added[k]) < NearDist2

\* The inner loop: is the cell within the suppression distance of a cell that
\* was already taken.
IsNear(cell, added) == \E k \in 1..Len(added) : Dist2(cell, added[k]) < NearDist2

\* The dictionary appended for an accepted cell; id n stands for "hotspot_<n>".
Hotspot(cell, n) ==
    [id |-> n, lat |-> cell.lat, lon |-> cell.lon, aqi |-> cell.aqi,
     type |-> "Hotspot", radius |-> HotspotRadius]

\* "for cell in sorted_cells": stop at five hotspots, skip a cell near one that
\* was taken, take the others.  The taken cells have the hotspots' coordinates,
\* so the list "added" is read off "hotspots".
RECURSIVE GreedyClustering(_, _)
GreedyClustering(sorted_cells, hotspots) ==
    IF sorted_cells = <<>> \/ Len(hotspots) >= MaxHotspots THEN hotspots
    ELSE LET cell == Head(sorted_cells)
         IN GreedyClustering(Tail(sorted_cells),
                IF IsNear(cell, hotspots) THEN hotspots
                ELSE Append(hotspots, Hotspot(cell, Len(hotspots) + 1)))

\* get_hotspots() on the grid that get_full_grid() returned.
get_hotspots(grid) ==
    [hotspots |-> GreedyClustering(SortDescending(HighAqiCells(grid)), <<>>),
     corridors |-> <<>>]

\* Input grids.  NumLine sites lie on a meridian a tenth of a degree apart
\* (squared distance exactly 0.01 between neighbours); NumNear sites lie
\* between the first of them, nearer than that to both neighbours.
NumLine == 6
NumNear == 2

Site(i) ==
    IF i <= NumLine THEN [lat |-> 28500000 + 100000 * (i - 1), lon |-> 77200000]
    ELSE [lat |-> 28500000 + 100000 * (i - NumLine - 1) + 30000, lon |-> 77240000]

\* Predicted values: 200 (at the threshold), 200.01 and 300.
AqiLevels == {20000, 20001, 30000}

SiteGrids ==
    { [i \in 1..(NumLine + NumNear) |->
          [lat |-> Site(i).lat, lon |-> Site(i).lon, aqi |-> f[i]]] :
      f \in [1..(NumLine + NumNear) -> AqiLevels] }

\* The three-cell grid of the specification's scenario.
ScenarioGrid ==
    << [lat |-> 28650000, lon |-> 77320000, aqi |-> 38000],
       [lat |-> 28628000, lon |-> 77241000, aqi |-> 31000],
       [lat |-> 28545000, lon |-> 77273000, aqi |-> 29500] >>

HotspotInit ==
    /\ LiveInit
    /\ call \in {[grid |-> g] : g \in SiteGrids \cup {ScenarioGrid}}
    /\ returned = <<>>
    /\ model = "None"
    /\ artifact = FALSE
    /\ clock = 0
    /\ readings_file = <<>>

\* The one call of the run.
GetHotspots ==
    /\ returned = <<>>
    /\ returned' = <<get_hotspots(call.grid)>>
    /\ UNCHANGED <<liveVars, call, model, artifact, clock, readings_file>>

HotspotNext == GetHotspots

HotspotSpec == HotspotInit /\ [][HotspotNext]_vars

\* C11: whatever the grid, get_hotspots returns at most 5 hotspots, and any two
\* distinct hotspots it returns are at a squared distance of at least 0.01
\* squared degrees from each other.
C11_HotspotBound ==
    \A r \in 1..Len(returned) :
        LET hs == returned[r].hotspots
        IN /\ Len(hs) <= 5
           /\ \A a, b \in 1..Len(hs) : a # b => Dist2(hs[a], hs[b]) >= 10000

\* A grid with more than five high cells pairwise far apart and a high cell
\* near a taken one: the cap and the suppression both acted.
C11_Witness ==
    /\ returned # <<>>
    /\ Len(returned[1].hotspots) = 5
    /\ Len(HighAqiCells(call.grid)) > 6
    /\ \E i \in 1..Len(call.grid) :
          /\ call.grid[i].aqi = 30000
          /\ \A k \in 1..5 : Dist2(call.grid[i], returned[1].hotspots[k]) # 0
          /\ \E k \in 1..5 : Dist2(call.grid[i], returned[1].hotspots[k]) < 10000

\* C12: for the scenario's three cells get_hotspots returns three hotspots,
\* one per cell, with ids hotspot_1, hotspot_2, hotspot_3 in descending order
\* of AQI.
C12_ScenarioGivesThree ==
    (call = [grid |-> ScenarioGrid] /\ returned # <<>>) =>
        LET hs == returned[1].hotspots
        IN /\ Len(hs) = 3
           /\ \A n \in 1..3 :
                 /\ hs[n].id = n
                 /\ hs[n].lat = ScenarioGrid[n].lat
                 /\ hs[n].lon = ScenarioGrid[n].lon
                 /\ hs[n].aqi = ScenarioGrid[n].aqi

\* The place in the grid of the cell a hotspot was made of (the cells of a
\* grid lie at distinct places).
CellOf(grid, h) == CHOOSE i \in 1..Len(grid) : grid[i].lat = h.lat /\ grid[i].lon = h.lon

\* The order of consideration: higher AQI first, equal AQI in grid order.
Before(grid, i, j) ==
    \/ grid[i].aqi > grid[j].aqi
    \/ grid[i].aqi = grid[j].aqi /\ i < j

AcceptedBefore(grid, hs, i) == { k \in 1..Len(hs) : Before(grid, CellOf(grid, hs[k]), i) }

\* Is cell i of the grid one of the hotspots.
Accepted(grid, hs, i) ==
    \E k \in 1..Len(hs) : hs[k].lat = grid[i].lat /\ hs[k].lon = grid[i].lon

\* C23 (as amended): walking the high-AQI cells in order, a cell becomes a
\* hotspot exactly when fewer than 5 hotspots were accepted before it and its
\* squared distance to none of them is < 0.01; a cell within 0.01 of at least
\* one accepted hotspot is skipped.
C23_GreedySuppression ==
    \A r \in 1..Len(returned) :
        LET hs == returned[r].hotspots
            grid == call.grid
        IN \A i \in 1..Len(grid) :
              grid[i].aqi > 20000 =>
                  LET earlier == AcceptedBefore(grid, hs, i)
                  IN Accepted(grid, hs, i) <=>
                        /\ Cardinality(earlier) < 5
                        /\ ~ \E k \in earlier : Dist2(grid[i], hs[k]) < 10000

\* A high cell considered after three hotspots, within 0.01 of one of them and
\* not of another, was skipped; and a high cell far from all five hotspots was
\* left out because the walk had stopped.
C23_Witness ==
    /\ returned # <<>>
    /\ LET hs == returned[1].hotspots
           grid == call.grid
       IN /\ Len(hs) = 5
          /\ \E i \in 1..Len(grid) :
                /\ grid[i].aqi > 20000
                /\ ~Accepted(grid, hs, i)
                /\ Cardinality(AcceptedBefore(grid, hs, i)) = 3
                /\ \E k \in AcceptedBefore(grid, hs, i) : Dist2(grid[i], hs[k]) < 10000
                /\ \E k \in AcceptedBefore(grid, hs, i) : Dist2(grid[i], hs[k]) >= 10000
          /\ \E i \in 1..Len(grid) :
                /\ grid[i].aqi > 20000
                /\ ~Accepted(grid, hs, i)
                /\ \A k \in 1..5 : Dist2(grid[i], hs[k]) >= 10000

\* C23 (as stated): a cell is skipped only when its squared distance to every
\* hotspot accepted before it (there being at least one) is < 0.01.
C23_SkippedOnlyIfNearEvery ==
    \A r \in 1..Len(returned) :
        LET hs == returned[r].hotspots
            grid == call.grid
        IN \A i \in 1..Len(grid) :
              grid[i].aqi > 20000 =>
                  LET earlier == AcceptedBefore(grid, hs, i)
                  IN Accepted(grid, hs, i) <=>
                        /\ Cardinality(earlier) < 5
                        /\ ~ (/\ earlier # {}
                              /\ \A k \in earlier : Dist2(grid[i], hs[k]) < 10000)

----------------------------------------------------------------------------
(* Numbers                                                                 *)
(*                                                                         *)
(* The services compute in binary floating point.  Here a latitude or a    *)
(* longitude is a whole number of millionths of a degree, a length a whole *)
(* number of metres, a time a whole number of hours.  A division rounds to *)
(* the nearest unit.                                                       *)

\* a / b rounded to the nearest whole number (b > 0).
RoundDiv(a, b) == (2 * a + b) \div (2 * b)

\* ceil(a / b) for b > 0, a of either sign (math.ceil).
CeilDiv(a, b) == 0 - ((0 - a) \div b)

\* floor(x * 10^k / d) by long division, for q = x div d, r = x mod d.
RECURSIVE LongDiv(_, _, _, _)
LongDiv(q, r, d, k) ==
    IF k = 0 THEN q
    ELSE LongDiv(q * 10 + (r * 10) \div d, (r * 10) % d, d, k - 1)

\* x * 10^6 / d for d > 0, x of either sign, cut to a whole number.
MillionTimesOver(x, d) ==
    IF x >= 0 THEN LongDiv(x \div d, x % d, d, 6)
    ELSE 0 - LongDiv((0 - x) \div d, (0 - x) % d, d, 6)

\* timestamp.hour and timestamp.dayofweek (Monday is 0) of an hour count.
Hour(t) == t % 24
DayOfWeek(t) == (t \div 24) % 7

----------------------------------------------------------------------------
(* AirQualityModel (ml/model.py)                                           *)
(*                                                                         *)
(* A feature vector is [lat, lon, hour, day_of_week, traffic, temp], with  *)
(* the traffic index in thousandths and the temperature in tenths of a     *)
(* degree.  An AQI value is a whole number of hundredths.                  *)

\* 100 * exp(-10 * dist), read off the squared distance in squared
\* thousandths of a degree: a step table of the exponential.
Decay(d2) ==
    IF d2 < 25 THEN 98
    ELSE IF d2 < 225 THEN 90
    ELSE IF d2 < 900 THEN 80
    ELSE IF d2 < 2500 THEN 67
    ELSE IF d2 < 4624 THEN 55
    ELSE IF d2 < 5041 THEN 50
    ELSE IF d2 < 6400 THEN 47
    ELSE IF d2 < 14400 THEN 37
    ELSE IF d2 < 32400 THEN 22
    ELSE IF d2 < 90000 THEN 9
    ELSE IF d2 < 1000000 THEN 2
    ELSE 0

\* np.random.normal(0, 10, size=len(features)): one draw per row.  The draws
\* of a call are fixed by a seed; each is -10.37, 0.04 or 10.
NoiseDraws == <<0 - 1037, 4, 1000>>
Noise(seed, k) == NoiseDraws[((seed + 2 * k) % 3) + 1]

\* dlat^2 + dlon^2 in squared thousandths of a degree for differences given in
\* millionths; beyond one degree on an axis the sum is not computed (every
\* reader of it treats all such distances alike).
FarDist2(dlat, dlon) ==
    IF dlat > 1000000 \/ dlat < 0 - 1000000 \/ dlon > 1000000 \/ dlon < 0 - 1000000
    THEN 1000000
    ELSE (dlat \div 1000) * (dlat \div 1000) + (dlon \div 1000) * (dlon \div 1000)

\* _mock_predict(): a bump centred on (28.6, 77.2) plus noise, row by row.
MockPredict(features, seed) ==
    [k \in 1..Len(features) |->
        15000
          + 100 * Decay(FarDist2(features[k].lat - 28600000, features[k].lon - 77200000))
          + Noise(seed, k)]

\* The regressor loaded from the artifact: some fixed function of the feature
\* vector (the artifact is produced by training and is no part of the code).
TrainedPredictOne(f) ==
    9000 + 407 * f.hour + 600 * f.day_of_week + f.traffic
         + 100 * (((f.lat + f.lon) \div 1000) % 40)

\* self.model.predict(features) of the loaded regressor: one value per row.
TrainedPredict(features) ==
    [k \in 1..Len(features) |-> TrainedPredictOne(features[k])]

\* A load that finds no artifact although one is there.
loadFindsNothing(m, art) == [model |-> m, ok |-> FALSE]

\* load(): when the artifact exists the regressor is read and kept.
load(m, art) ==
    IF art THEN [model |-> "trained", ok |-> TRUE]
    ELSE [model |-> m, ok |-> FALSE]

\* predict(): the values, the model field after the call, and which branch
\* produced the values.
predict(m, art, features, seed) ==
    IF m = "None" /\ ~load(m, art).ok
    THEN [model |-> m, by |-> "mock", out |-> MockPredict(features, seed)]
    ELSE [model |-> IF m = "None" THEN load(m, art).model ELSE m,
          by |-> "trained", out |-> TrainedPredict(features)]

----------------------------------------------------------------------------
(* PredictionService (services/prediction_service.py)                      *)

\* "self.resolution = 0.005", in millionths of a degree
Resolution == 5000

\* "else 25 # default 25km", in metres
DefaultRadius == 25000

\* "1 degree latitude ~ 111 km"
KmPerDegree == 111

\* The largest rounding error of a floating-point sum, in units of the last
\* place kept here.
MaxUlp == 1

\* np.cos(np.radians(lat)) in millionths, for the latitudes of the centres used.
Cos6(lat) ==
    IF lat = 28613900 THEN 877867
    ELSE IF lat = 60000000 THEN 500000
    ELSE 1000000

\* "radius_km / 111.0"
LatOffset(radius) == RoundDiv(radius * 1000, KmPerDegree)

\* "radius_km / (111.0 * np.cos(np.radians(lat)))"
LonOffset(radius, lat) == MillionTimesOver(radius * 1000, KmPerDegree * Cos6(lat))

\* A floating-point sum: exact when the term added is zero, otherwise off by
\* the rounding error e of this operation.
Fl(exact, term, e) == IF term = 0 THEN exact ELSE exact + e

\* The bounding box: center - offset and center + offset on both axes.  err is
\* the rounding of the lower and of the upper bound.
BoundingBox(lat, lon, radius, err) ==
    [min_lat |-> Fl(lat - LatOffset(radius), LatOffset(radius), err.min),
     max_lat |-> Fl(lat + LatOffset(radius), LatOffset(radius), err.max),
     min_lon |-> Fl(lon - LonOffset(radius, lat), LonOffset(radius, lat), err.min),
     max_lon |-> Fl(lon + LonOffset(radius, lat), LonOffset(radius, lat), err.max)]

\* __init__(): the centre and the box are stored, nothing is checked.
PredictionService(center_lat, center_lon, radius_km, err) ==
    [center_lat |-> center_lat, center_lon |-> center_lon,
     box |-> BoundingBox(center_lat, center_lon, radius_km, err),
     resolution |-> Resolution]

\* An arange that leaves out the last value when the step does not divide the
\* interval.
arangeFloor(start, stop, step) ==
    [i \in 1..((stop - start) \div step) |-> start + (i - 1) * step]

\* np.arange(start, stop, step): ceil((stop - start) / step) values from start,
\* none when that is not positive.
arange(start, stop, step) ==
    [i \in 1..CeilDiv(stop - start, step) |-> start + (i - 1) * step]

\* np.meshgrid(lats, lons) flattened: the latitudes run fastest.
Flatten(lats, lons) ==
    [k \in 1..(Len(lats) * Len(lons)) |->
        [lat |-> lats[((k - 1) % Len(lats)) + 1],
         lon |-> lons[((k - 1) \div Len(lats)) + 1]]]

\* _get_mock_traffic(): clip(1 / (dist_sq * 100 + 1), 0.1, 1.0), in thousandths.
MockTraffic(lat, lon, center_lat, center_lon) ==
    LET t == 10000000 \div (FarDist2(lat - center_lat, lon - center_lon) + 10000)
    IN IF t < 100 THEN 100 ELSE IF t > 1000 THEN 1000 ELSE t

\* get_full_grid() of the service self, called at time now on a model field m.
\* An argument given is <<value>>, one left out (None) is <<>>.  Gives the
\* result and the model field after the call.
get_full_grid(self, lat, lon, radius_km, now, m, art, seed, err) ==
    LET target_lat == IF lat # <<>> THEN lat[1] ELSE self.center_lat
        target_lon == IF lon # <<>> THEN lon[1] ELSE self.center_lon
        target_radius == IF radius_km # <<>> THEN radius_km[1] ELSE DefaultRadius
        box == BoundingBox(target_lat, target_lon, target_radius, err)
        lats == arange(box.min_lat, box.max_lat, self.resolution)
        lons == arange(box.min_lon, box.max_lon, self.resolution)
        flat == Flatten(lats, lons)
        features == [k \in 1..Len(flat) |->
                        [lat |-> flat[k].lat, lon |-> flat[k].lon,
                         hour |-> Hour(now), day_of_week |-> DayOfWeek(now),
                         traffic |-> MockTraffic(flat[k].lat, flat[k].lon,
                                                 target_lat, target_lon),
                         temp |-> 250]]
        p == predict(m, art, features, seed)
    IN [model |-> p.model,
        result |-> [timestamp |-> now,
                    grid |-> [k \in 1..Len(flat) |->
                                 [lat |-> flat[k].lat, lon |-> flat[k].lon,
                                  aqi |-> p.out[k]]],
                    center |-> [lat |-> target_lat, lon |-> target_lon],
                    count |-> Len(flat),
                    by |-> p.by]]

\* Inputs of the grid runs: two centres, radii in metres (a negative one, zero,
\* two whose box is a whole number of cells high, two others), the roundings
\* and the seeds of the noise.
Centres == {[lat |-> 28613900, lon |-> 77209000], [lat |-> 60000000, lon |-> 10000000]}
Radii == {0 - 1000, 0, 555, 1000, 1110, 2000}
Roundings == [{"min", "max"} -> (0 - MaxUlp)..MaxUlp]
Seeds == {1, 2}

GridCalls ==
    { [route |-> "get_full_grid", lat |-> c.lat, lon |-> c.lon, radius_km |-> r,
       err |-> [min |-> e["min"], max |-> e["max"]], seed |-> s] :
      c \in Centres, r \in Radii, e \in Roundings, s \in Seeds }

\* Requests to /aqi/grid/custom (one centre, without rounding errors: each
\* yields a grid of some nine thousand cells).
CustomCalls ==
    { [route |-> "custom", lat |-> 28613900, lon |-> 77209000, radius_km |-> r,
       err |-> [min |-> 0, max |-> 0], seed |-> 1] :
      r \in {0 - 1000, 0, 1000} }

GridInit ==
    /\ LiveInit
    /\ \/ call \in GridCalls /\ artifact \in BOOLEAN
       \/ call \in CustomCalls /\ artifact = FALSE
    /\ returned = <<>>
    /\ model = "None"
    /\ clock = 8
    /\ readings_file = <<>>

\* prediction_service.get_full_grid(lat, lon, radius_km) on the module's
\* service, built with the defaults.
GetFullGrid ==
    /\ returned = <<>>
    /\ call.route = "get_full_grid"
    /\ LET self == PredictionService(28613900, 77209000, 25000, call.err)
           g == get_full_grid(self, <<call.lat>>, <<call.lon>>, <<call.radius_km>>,
                              clock, model, artifact, call.seed, call.err)
       IN /\ returned' = <<g.result>>
          /\ model' = g.model
    /\ UNCHANGED <<liveVars, call, artifact, clock, readings_file>>

\* get_custom_aqi_grid(center_lat, center_lon, radius_km): a service is built
\* for the request and its get_full_grid() is called without arguments.
GetCustomAqiGrid ==
    /\ returned = <<>>
    /\ call.route = "custom"
    /\ LET self == PredictionService(call.lat, call.lon, call.radius_km, call.err)
           g == get_full_grid(self, <<>>, <<>>, <<>>,
                              clock, model, artifact, call.seed, call.err)
       IN /\ returned' = <<g.result>>
          /\ model' = g.model
    /\ UNCHANGED <<liveVars, call, artifact, clock, readings_file>>

GridNext == GetFullGrid \/ GetCustomAqiGrid

GridSpec == GridInit /\ [][GridNext]_vars

\* C13: for every radius r > 0 (and the cell size s > 0 of the service)
\* get_full_grid returns count = ceil((2r/111)/s) x ceil((2r/(111 cos lat))/s)
\* cells, count is the length of the cell list, and every cell lies in the
\* half-open bounding box: min_lat <= lat < max_lat, min_lon <= lon < max_lon.
C13_GridCountFormula ==
    (returned # <<>> /\ call.route = "get_full_grid" /\ call.radius_km > 0) =>
        LET res == returned[1]
            box == BoundingBox(call.lat, call.lon, call.radius_km, call.err)
            rows == CeilDiv(2 * call.radius_km * 1000, 111 * Resolution)
            cols == CeilDiv(2 * call.radius_km * (1000000000 \div Resolution),
                            111 * Cos6(call.lat))
        IN /\ res.count = rows * cols
           /\ res.count = Len(res.grid)
           /\ \A k \in 1..Len(res.grid) :
                 /\ box.min_lat <= res.grid[k].lat /\ res.grid[k].lat < box.max_lat
                 /\ box.min_lon <= res.grid[k].lon /\ res.grid[k].lon < box.max_lon

\* C14 (as amended): for the centre (28.6139, 77.2090) and a radius of 1 km,
\* with cells of 0.005 degrees, get_full_grid returns 20 cells: 4 latitudes by
\* 5 longitudes.
C14_OneKmGridHasTwenty ==
    (returned # <<>> /\ call.route = "get_full_grid" /\ call.lat = 28613900
        /\ call.lon = 77209000 /\ call.radius_km = 1000) =>
        /\ returned[1].count = 20
        /\ Cardinality({returned[1].grid[k].lat : k \in 1..Len(returned[1].grid)}) = 4
        /\ Cardinality({returned[1].grid[k].lon : k \in 1..Len(returned[1].grid)}) = 5

\* The one-kilometre grid around the default centre was computed with both
\* bounds rounded.
C14_Witness ==
    /\ returned # <<>>
    /\ call.route = "get_full_grid"
    /\ call.lat = 28613900 /\ call.lon = 77209000 /\ call.radius_km = 1000
    /\ call.err.min # 0 /\ call.err.max # 0
    /\ Resolution = 5000

\* C14 as stated: that grid has a count of 4 (a 2x2 lattice).
C14_OneKmGridHasFour ==
    (returned # <<>> /\ call.route = "get_full_grid" /\ call.lat = 28613900
        /\ call.lon = 77209000 /\ call.radius_km = 1000) =>
        returned[1].count = 4

\* C15: a grid request with a radius <= 0 is rejected with an input-validation
\* error; it is never turned into a result (an empty grid, a grid of the
\* default radius).
C15_DegenerateRadiusRejected ==
    (returned # <<>> /\ call.route \in {"get_full_grid", "custom"}
        /\ call.radius_km <= 0) =>
        /\ "error" \in DOMAIN returned[1]
        /\ "grid" \notin DOMAIN returned[1]

----------------------------------------------------------------------------
(* AirQualityModel.predict over a run of calls                             *)

\* Feature vectors of the calls: at the centre of the bump, near it, far away.
FeatureRows ==
    { [lat |-> 28600000, lon |-> 77200000, hour |-> 8, day_of_week |-> 0,
       traffic |-> 1000, temp |-> 250],
      [lat |-> 28650000, lon |-> 77250000, hour |-> 18, day_of_week |-> 5,
       traffic |-> 400, temp |-> 250],
      [lat |-> 29400000, lon |-> 76300000, hour |-> 23, day_of_week |-> 6,
       traffic |-> 100, temp |-> 250] }

\* The longest batch of feature vectors passed to one call.
MaxRows == 3

Batches == UNION {[1..n -> FeatureRows] : n \in 1..MaxRows}

ModelInit ==
    /\ LiveInit
    /\ call = <<>>
    /\ returned = <<>>
    /\ model = "None"
    /\ artifact \in BOOLEAN
    /\ clock = 0
    /\ readings_file = <<>>

\* model.predict(features): "call" is the batch and "returned" holds what this
\* call returned.
Predict(features, seed) ==
    /\ LET p == predict(model, artifact, features, seed)
       IN /\ model' = p.model
          /\ returned' = <<[by |-> p.by, out |-> p.out]>>
    /\ call' = features
    /\ UNCHANGED <<liveVars, artifact, clock, readings_file>>

\* Environment: a training run writes the artifact (train(), joblib.dump).
ArtifactWritten ==
    /\ ~artifact
    /\ artifact' = TRUE
    /\ UNCHANGED <<liveVars, call, returned, model, clock, readings_file>>

\* Environment: the artifact is deleted from the disk.
ArtifactRemoved ==
    /\ artifact
    /\ artifact' = FALSE
    /\ UNCHANGED <<liveVars, call, returned, model, clock, readings_file>>

ModelNext ==
    \/ \E features \in Batches, seed \in Seeds : Predict(features, seed)
    \/ ArtifactWritten
    \/ ArtifactRemoved

ModelSpec == ModelInit /\ [][ModelNext]_vars

\* What a call has returned is one AQI per feature vector, in the order of the
\* vectors: the regressor's value of each row, or the bump's value at the row
\* plus a noise draw.
OnePerVector ==
    returned # <<>> =>
        /\ Len(returned[1].out) = Len(call)
        /\ \A k \in 1..Len(call) :
              IF returned[1].by = "trained"
              THEN returned[1].out[k] = TrainedPredictOne(call[k])
              ELSE returned[1].out[k] - 15000
                      - 100 * Decay(FarDist2(call[k].lat - 28600000,
                                             call[k].lon - 77200000))
                      \in {0 - 1037, 4, 1000}

\* A step that is a call of predict.
PredictStep == \E features \in Batches, seed \in Seeds : Predict(features, seed)

\* C16: predict never fails for want of the artifact.  With no model loaded
\* and no artifact a call is answered by the synthetic fallback (and nothing
\* is loaded); with the artifact there, a call loads the trained model and is
\* answered by it; once the model is loaded every later call is answered by
\* it; and every call returns one AQI per input vector in input order.
C16_PredictFallback ==
    /\ [][PredictStep =>
            /\ (model = "None" /\ ~artifact) =>
                  (returned'[1].by = "mock" /\ model' = "None")
            /\ (model = "trained" \/ artifact) =>
                  (returned'[1].by = "trained" /\ model' = "trained")]_vars
    /\ [](OnePerVector)
    /\ [](model = "None" \/ model = "trained")

\* The model was loaded, the artifact is gone again, and a call with two
\* different vectors is still answered by the trained model.
C16_Witness ==
    /\ returned # <<>>
    /\ returned[1].by = "trained"
    /\ model = "trained"
    /\ ~artifact
    /\ Len(call) = 2
    /\ call[1] # call[2]

----------------------------------------------------------------------------
(* ForecastService (services/forecast_service.py)                          *)

\* "self.forecast_hours = 48"
ForecastHours == 48

\* A traffic estimate that takes every day for a weekday.
EstimateTrafficWeekday(hour, day_of_week) ==
    IF 7 <= hour /\ hour < 10 THEN 1500
    ELSE IF 17 <= hour /\ hour < 21 THEN 1600
    ELSE IF hour >= 22 \/ hour < 6 THEN 300
    ELSE 800

\* _estimate_traffic(), in thousandths.
EstimateTraffic(hour, day_of_week) ==
    LET base_traffic == IF day_of_week >= 5 THEN 600 ELSE 1000
    IN IF 7 <= hour /\ hour < 10 THEN (base_traffic * 15) \div 10
       ELSE IF 17 <= hour /\ hour < 21 THEN (base_traffic * 16) \div 10
       ELSE IF hour >= 22 \/ hour < 6 THEN (base_traffic * 3) \div 10
       ELSE (base_traffic * 8) \div 10

\* 100 * sin(k * pi / 12) for k = 0..23, to the nearest whole number.
SinTable ==
    <<0, 26, 50, 71, 87, 97, 100, 97, 87, 71, 50, 26,
      0, 0 - 26, 0 - 50, 0 - 71, 0 - 87, 0 - 97, 0 - 100, 0 - 97, 0 - 87, 0 - 71,
      0 - 50, 0 - 26>>

\* _estimate_temperature(): 20 + 10 * sin((hour - 6) * pi / 12), in tenths.
EstimateTemperature(hour) == 200 + SinTable[((hour - 6) % 24) + 1]

\* A classification whose first breakpoint is exclusive.
Forecast_get_categoryStrict(aqi) ==
    IF aqi < 5000 THEN "Good"
    ELSE IF aqi <= 10000 THEN "Moderate"
    ELSE IF aqi <= 15000 THEN "Unhealthy for Sensitive Groups"
    ELSE IF aqi <= 20000 THEN "Unhealthy"
    ELSE IF aqi <= 30000 THEN "Very Unhealthy"
    ELSE "Hazardous"

\* ForecastService._get_category(), the AQI in hundredths.
Forecast_get_category(aqi) ==
    IF aqi <= 5000 THEN "Good"
    ELSE IF aqi <= 10000 THEN "Moderate"
    ELSE IF aqi <= 15000 THEN "Unhealthy for Sensitive Groups"
    ELSE IF aqi <= 20000 THEN "Unhealthy"
    ELSE IF aqi <= 30000 THEN "Very Unhealthy"
    ELSE "Hazardous"

\* _traffic_level()
TrafficLevel(traffic_index) ==
    IF traffic_index < 500 THEN "Low"
    ELSE IF traffic_index < 1000 THEN "Moderate"
    ELSE IF traffic_index < 1400 THEN "High"
    ELSE "Very High"

\* round(x, 1) of a value in hundredths.
Round1(x) == RoundDiv(x, 10) * 10

\* round(total / n, 1), in hundredths.
RoundedMean(total, n) == RoundDiv(total, 10 * n) * 10

RECURSIVE SeqSum(_)
SeqSum(s) == IF s = <<>> THEN 0 ELSE Head(s) + SeqSum(Tail(s))

\* A maximum that is read off the end of the list.
LastValue(s) == s[Len(s)]

\* min(values), max(values)
SeqMin(s) == CHOOSE v \in Range(s) : \A w \in Range(s) : v <= w
SeqMax(s) == CHOOSE v \in Range(s) : \A w \in Range(s) : v >= w

\* A forecast whose every point carries the time of the call.
ForecastTimeStuck(current_time, hour_offset) == current_time

\* "current_time + timedelta(hours=hour_offset)"
ForecastTime(current_time, hour_offset) == current_time + hour_offset

\* One turn of the loop of get_forecast(): the point for an hour offset, scored
\* on the model field m.
ForecastPoint(lat, lon, current_time, hour_offset, m, art, seed) ==
    LET forecast_time == ForecastTime(current_time, hour_offset)
        hour == Hour(forecast_time)
        day_of_week == DayOfWeek(forecast_time)
        traffic_index == EstimateTraffic(hour, day_of_week)
        temp == EstimateTemperature(hour)
        features == <<[lat |-> lat, lon |-> lon, hour |-> hour,
                       day_of_week |-> day_of_week, traffic |-> traffic_index,
                       temp |-> temp]>>
        predicted_aqi == predict(m, art, features, seed + hour_offset).out[1]
    IN [timestamp |-> forecast_time,
        hour |-> hour,
        date |-> forecast_time \div 24,
        aqi |-> Round1(predicted_aqi),
        category |-> Forecast_get_category(predicted_aqi),
        traffic_level |-> TrafficLevel(traffic_index),
        temperature |-> temp]

\* _get_daily_summary(): the points grouped by date, in order of first
\* appearance (the dates of a forecast are consecutive days).
DailySummary(forecasts) ==
    LET first == forecasts[1].date
        last == forecasts[Len(forecasts)].date
    IN [d \in 1..(last - first + 1) |->
           LET day == SelectSeq(forecasts, LAMBDA f : f.date = first + d - 1)
               aqi_values == [i \in 1..Len(day) |-> day[i].aqi]
           IN [date |-> first + d - 1,
               min_aqi |-> SeqMin(aqi_values),
               max_aqi |-> SeqMax(aqi_values),
               avg_aqi |-> RoundedMean(SeqSum(aqi_values), Len(aqi_values)),
               category |-> Forecast_get_category(
                                CeilDiv(SeqSum(aqi_values), Len(aqi_values)))]]

\* A forecast service that raises no alert.
NoAlerts(forecasts) == <<>>

\* _generate_alerts(): the points above 200, then the changes of more than 50
\* between neighbours; the first ten are kept.
GenerateAlerts(forecasts) ==
    LET high == SelectSeq(forecasts, LAMBDA f : f.aqi > 20000)
        steps == SelectSeq([i \in 1..(Len(forecasts) - 1) |-> i],
                           LAMBDA i : \/ forecasts[i + 1].aqi - forecasts[i].aqi > 5000
                                      \/ forecasts[i].aqi - forecasts[i + 1].aqi > 5000)
        alerts ==
            [i \in 1..Len(high) |->
                [severity |-> IF high[i].aqi > 25000 THEN "high" ELSE "medium",
                 time |-> high[i].timestamp, kind |-> "high_pollution",
                 value |-> high[i].aqi]]
            \o [i \in 1..Len(steps) |->
                [severity |-> "medium",
                 time |-> forecasts[steps[i] + 1].timestamp, kind |-> "rapid_change",
                 value |-> forecasts[steps[i] + 1].aqi - forecasts[steps[i]].aqi]]
    IN SubSeq(alerts, 1, IF Len(alerts) < 10 THEN Len(alerts) ELSE 10)

\* get_forecast() at time now on a model field m: the result and the model
\* field after the call.  The first prediction may load the model; the later
\* ones find the field as the first left it.
get_forecast(lat, lon, now, m, art, seed) ==
    LET current_time == now
        after == predict(m, art, <<>>, seed).model
        forecasts == [h \in 1..ForecastHours |->
                         ForecastPoint(lat, lon, current_time, h - 1,
                                       IF h = 1 THEN m ELSE after, art, seed)]
        aqi_values == [h \in 1..ForecastHours |-> forecasts[h].aqi]
        min_aqi == SeqMin(aqi_values)
        max_aqi == SeqMax(aqi_values)
        worst == CHOOSE i \in 1..ForecastHours :
                     aqi_values[i] = max_aqi /\ \A j \in 1..(i - 1) : aqi_values[j] # max_aqi
        best == CHOOSE i \in 1..ForecastHours :
                     aqi_values[i] = min_aqi /\ \A j \in 1..(i - 1) : aqi_values[j] # min_aqi
    IN [model |-> after,
        result |-> [location |-> [lat |-> lat, lon |-> lon],
                    generated_at |-> current_time,
                    forecasts |-> forecasts,
                    statistics |->
                        [min_aqi |-> min_aqi,
                         max_aqi |-> max_aqi,
                         avg_aqi |-> RoundedMean(SeqSum(aqi_values), ForecastHours),
                         worst_hour |-> forecasts[worst].timestamp,
                         best_hour |-> forecasts[best].timestamp],
                    daily_summary |-> DailySummary(forecasts),
                    alerts |-> GenerateAlerts(forecasts)]]

\* Inputs of the forecast runs: a location (one of the centres, the place
\* where the synthetic predictions peak, a place 0.0693 degrees north of it
\* where the peak has fallen by half), a seed of the noise, and any hour of a
\* week as the time of the call.
ForecastCalls ==
    { [route |-> "forecast", lat |-> c.lat, lon |-> c.lon, seed |-> s] :
      c \in Centres \cup {[lat |-> 28600000, lon |-> 77200000],
                           [lat |-> 28669300, lon |-> 77200000]},
      s \in Seeds }

ForecastInit ==
    /\ LiveInit
    /\ call \in ForecastCalls
    /\ returned = <<>>
    /\ model = "None"
    /\ artifact \in BOOLEAN
    /\ clock \in 0..(7 * 24 - 1)
    /\ readings_file = <<>>

\* forecast_service.get_forecast(lat, lon)
GetForecast ==
    /\ returned = <<>>
    /\ call.route = "forecast"
    /\ LET f == get_forecast(call.lat, call.lon, clock, model, artifact, call.seed)
       IN /\ returned' = <<f.result>>
          /\ model' = f.model
    /\ UNCHANGED <<liveVars, call, artifact, clock, readings_file>>

ForecastNext == GetForecast

ForecastSpec == ForecastInit /\ [][ForecastNext]_vars

\* C17: for every location and every time of the call, get_forecast returns
\* exactly 48 points; the first carries the generation time, each next one a
\* time exactly one hour later, so the timestamps increase strictly.
C17_FortyEightHourlyPoints ==
    returned # <<>> =>
        LET fs == returned[1].forecasts
        IN /\ Len(fs) = 48
           /\ fs[1].timestamp = returned[1].generated_at
           /\ returned[1].generated_at = clock
           /\ \A i \in 1..(Len(fs) - 1) : fs[i + 1].timestamp = fs[i].timestamp + 1
           /\ \A i, j \in 1..Len(fs) : i < j => fs[i].timestamp < fs[j].timestamp

\* A forecast made on a Sunday at 23:00: its points run over midnight and
\* into the next week.
C17_Witness ==
    /\ returned # <<>>
    /\ call.route = "forecast"
    /\ clock = 7 * 24 - 1
    /\ returned[1].forecasts[2].hour = 0
    /\ Len(returned[1].daily_summary) = 3

----------------------------------------------------------------------------
(* AQI categories (forecast_service.py and health_service.py)              *)

\* HealthService._get_category(), the AQI in hundredths.
Health_get_category(aqi) ==
    IF aqi <= 5000 THEN "Good"
    ELSE IF aqi <= 10000 THEN "Moderate"
    ELSE IF aqi <= 15000 THEN "Unhealthy for Sensitive Groups"
    ELSE IF aqi <= 20000 THEN "Unhealthy"
    ELSE IF aqi <= 30000 THEN "Very Unhealthy"
    ELSE "Hazardous"

\* The largest AQI classified in the category runs, in hundredths.
MaxAqi == 32000

\* Distances between the two values classified in one run.
AqiGaps == {1, 2500, 12000}

\* Inputs of the category runs: a value from -10.00 up and a larger one.
CategoryCalls ==
    { [route |-> "category", a1 |-> a, a2 |-> a + g] :
      a \in (0 - 1000)..MaxAqi, g \in AqiGaps }

CategoryInit ==
    /\ LiveInit
    /\ call \in CategoryCalls
    /\ returned = <<>>
    /\ model = "None"
    /\ artifact = FALSE
    /\ clock = 0
    /\ readings_file = <<>>

\* Both services classify both values.
Classify ==
    /\ returned = <<>>
    /\ call.route = "category"
    /\ returned' = <<[forecast1 |-> Forecast_get_category(call.a1),
                      health1 |-> Health_get_category(call.a1),
                      forecast2 |-> Forecast_get_category(call.a2),
                      health2 |-> Health_get_category(call.a2)]>>
    /\ UNCHANGED <<liveVars, call, model, artifact, clock, readings_file>>

CategoryNext == Classify

CategorySpec == CategoryInit /\ [][CategoryNext]_vars

\* The breakpoint table of the claim, for a value in hundredths.
TableCategory(a) ==
    CASE a <= 50 * 100 -> "Good"
      [] a > 50 * 100 /\ a <= 100 * 100 -> "Moderate"
      [] a > 100 * 100 /\ a <= 150 * 100 -> "Unhealthy for Sensitive Groups"
      [] a > 150 * 100 /\ a <= 200 * 100 -> "Unhealthy"
      [] a > 200 * 100 /\ a <= 300 * 100 -> "Very Unhealthy"
      [] a > 300 * 100 -> "Hazardous"

\* The categories from the least to the most severe.
Severity(category) ==
    CASE category = "Good" -> 1
      [] category = "Moderate" -> 2
      [] category = "Unhealthy for Sensitive Groups" -> 3
      [] category = "Unhealthy" -> 4
      [] category = "Very Unhealthy" -> 5
      [] category = "Hazardous" -> 6

\* C18: ForecastService._get_category and HealthService._get_category both
\* follow the table Good <= 50, Moderate <= 100, Unhealthy for Sensitive Groups
\* <= 150, Unhealthy <= 200, Very Unhealthy <= 300, else Hazardous; so of two
\* values the smaller never gets the more severe category.
C18_SharedBreakpoints ==
    returned # <<>> =>
        /\ returned[1].forecast1 = TableCategory(call.a1)
        /\ returned[1].health1 = TableCategory(call.a1)
        /\ returned[1].forecast2 = TableCategory(call.a2)
        /\ returned[1].health2 = TableCategory(call.a2)
        /\ Severity(returned[1].forecast1) <= Severity(returned[1].forecast2)
        /\ Severity(returned[1].health1) <= Severity(returned[1].health2)

\* A value exactly at a breakpoint and the next one above it were classified.
C18_Witness ==
    /\ returned # <<>>
    /\ call.a1 = 5000 /\ call.a2 = 5001
    /\ returned[1].health1 = "Good" /\ returned[1].health2 = "Moderate"

----------------------------------------------------------------------------
(* The same call made twice, with the trained model, as time passes        *)

\* How many hours pass at most during a run.
MaxTicks == 3

\* The calls that are repeated: small grids and forecasts.
RepeatCalls ==
    { c \in GridCalls : c.lat = 28613900 /\ c.radius_km \in {555, 1000} /\ c.seed = 1 }
        \cup { c \in ForecastCalls : c.seed = 1 }

RepeatInit ==
    /\ LiveInit
    /\ call \in RepeatCalls
    /\ returned = <<>>
    /\ model = "None"
    /\ artifact = TRUE
    /\ clock = 22
    /\ readings_file = <<>>

\* Environment: an hour passes.
Tick ==
    /\ clock < 22 + MaxTicks
    /\ clock' = clock + 1
    /\ UNCHANGED <<liveVars, call, returned, model, artifact, readings_file>>

\* get_full_grid with the arguments of the run, once more.
RepeatGrid ==
    /\ Len(returned) < 2
    /\ call.route = "get_full_grid"
    /\ LET self == PredictionService(28613900, 77209000, 25000, call.err)
           g == get_full_grid(self, <<call.lat>>, <<call.lon>>, <<call.radius_km>>,
                              clock, model, artifact, call.seed, call.err)
       IN /\ returned' = Append(returned, g.result)
          /\ model' = g.model
    /\ UNCHANGED <<liveVars, call, artifact, clock, readings_file>>

\* get_forecast with the arguments of the run, once more.
RepeatForecast ==
    /\ Len(returned) < 2
    /\ call.route = "forecast"
    /\ LET f == get_forecast(call.lat, call.lon, clock, model, artifact, call.seed)
       IN /\ returned' = Append(returned, f.result)
          /\ model' = f.model
    /\ UNCHANGED <<liveVars, call, artifact, clock, readings_file>>

RepeatNext == Tick \/ RepeatGrid \/ RepeatForecast

RepeatSpec == RepeatInit /\ [][RepeatNext]_vars

\* C19: with the trained model and the same arguments, two calls of
\* get_full_grid return identical results and two calls of get_forecast return
\* identical results, whatever the time of each call.
C19_RepeatedCallsAgree ==
    Len(returned) = 2 => returned[1] = returned[2]

----------------------------------------------------------------------------
(* HistoricalDatabase (models/database.py)                                 *)
(*                                                                         *)
(* A reading is [timestamp, lat, lon]; the file holds one reading a line,  *)
(* in the order of the writes.  A query is [start_time, end_time, lat,     *)
(* lon, radius_km, limit] with <<>> for None and the radius in metres.     *)

\* "distance > radius_km", with distance = sqrt(dlat^2 + dlon^2) * 111 km:
\* compared on the squares, in square metres.
TooFar(reading, lat, lon, radius_km) ==
    Dist2(reading, [lat |-> lat, lon |-> lon]) * 111 * 111 > radius_km * radius_km

\* The filters of the loop: is the line skipped ("continue").
Skipped(reading, q) ==
    \/ q.start_time # <<>> /\ reading.timestamp < q.start_time[1]
    \/ q.end_time # <<>> /\ reading.timestamp > q.end_time[1]
    \/ q.lat # <<>> /\ q.lon # <<>> /\ TooFar(reading, q.lat[1], q.lon[1], q.radius_km)

\* "for line in f": a line that passes the filters is appended, and the loop
\* breaks once len(readings) >= limit.
RECURSIVE Scan(_, _, _)
Scan(lines, readings, q) ==
    IF lines = <<>> THEN readings
    ELSE IF Skipped(Head(lines), q) THEN Scan(Tail(lines), readings, q)
    ELSE IF Len(readings) + 1 >= q.limit THEN Append(readings, Head(lines))
    ELSE Scan(Tail(lines), Append(readings, Head(lines)), q)

\* The slice s[-n:] of a Python list.
LastSlice(s, n) ==
    IF n = 0 THEN s
    ELSE IF n > 0 THEN SubSeq(s, IF Len(s) > n THEN Len(s) - n + 1 ELSE 1, Len(s))
    ELSE SubSeq(s, 1 - n, Len(s))

\* get_readings(): no file or an empty one gives [].
get_readings(file, q) == LastSlice(Scan(file, <<>>, q), q.limit)

\* The most lines the file holds in a run.
MaxReadings == 4

\* Readings written: three times, a place 0.55 km from the place asked about
\* and one 2.2 km from it.
Readings ==
    { [timestamp |-> t, lat |-> la, lon |-> 77209000] :
      t \in 1..3, la \in {28618900, 28633900} }

Queries ==
    { [start_time |-> s, end_time |-> e, lat |-> p[1], lon |-> p[2],
       radius_km |-> 1000, limit |-> n] :
      s \in {<<>>, <<2>>}, e \in {<<>>, <<2>>},
      p \in {<< <<>>, <<>> >>, << <<28613900>>, <<77209000>> >>},
      n \in {0, 1, 2, 1000} }

DatabaseInit ==
    /\ LiveInit
    /\ call = <<>>
    /\ returned = <<>>
    /\ model = "None"
    /\ artifact = FALSE
    /\ clock = 0
    /\ readings_file = <<>>

\* save_reading(): one more line at the end of the file.  The answer to the
\* query made before is dropped from the observation.
SaveReading(reading) ==
    /\ Len(readings_file) < MaxReadings
    /\ readings_file' = Append(readings_file, reading)
    /\ call' = <<>>
    /\ returned' = <<>>
    /\ UNCHANGED <<liveVars, model, artifact, clock>>

\* db.get_readings(start_time, end_time, lat, lon, radius_km, limit)
GetReadings(q) ==
    /\ call' = q
    /\ returned' = <<get_readings(readings_file, q)>>
    /\ UNCHANGED <<liveVars, model, artifact, clock, readings_file>>

DatabaseNext ==
    \/ \E reading \in Readings : SaveReading(reading)
    \/ \E q \in Queries : GetReadings(q)

DatabaseSpec == DatabaseInit /\ [][DatabaseNext]_vars

\* C20: get_readings returns the readings that pass the time and radius
\* filters, in the order they were written; when more than limit of them
\* pass, it returns the last limit of them; it never returns more than limit.
C20_MostRecentLimit ==
    returned # <<>> =>
        LET matching == SelectSeq(readings_file, LAMBDA r : ~Skipped(r, call))
        IN /\ Len(returned[1]) <= call.limit
           /\ returned[1] =
                  IF Len(matching) > call.limit
                  THEN SubSeq(matching, Len(matching) - call.limit + 1, Len(matching))
                  ELSE matching

----------------------------------------------------------------------------
(* The route table of the application (main.py, api/endpoints.py)          *)
(*                                                                         *)
(* A path is the sequence of its segments; "{}" in a route stands for a    *)
(* path parameter.  A route is <<method, path, endpoint>>.                 *)

\* The routes of api/endpoints.py, in the order of their decorators.
api_router ==
    << <<"GET", <<"aqi", "live">>, "get_live_aqi">>,
       <<"GET", <<"aqi", "grid">>, "get_aqi_grid">>,
       <<"GET", <<"aqi", "hotspots">>, "get_hotspots">>,
       <<"GET", <<"aqi", "location">>, "get_location_aqi">>,
       <<"GET", <<"alerts">>, "get_alerts">>,
       <<"GET", <<"health", "recommendations">>, "get_health_recommendations">>,
       <<"GET", <<"forecast">>, "get_forecast">>,
       <<"GET", <<"forecast", "regional">>, "get_regional_forecast">>,
       <<"GET", <<"historical">>, "get_historical_data">>,
       <<"POST", <<"favorites">>, "add_favorite">>,
       <<"GET", <<"favorites">>, "get_favorites">>,
       <<"DELETE", <<"favorites", "{}">>, "delete_favorite">>,
       <<"GET", <<"export", "csv">>, "export_csv">>,
       <<"GET", <<"export", "json">>, "export_json">>,
       <<"GET", <<"export", "geojson">>, "export_geojson">>,
       <<"GET", <<"analytics", "summary">>, "get_analytics_summary">>,
       <<"GET", <<"locations", "cities">>, "get_supported_cities">>,
       <<"GET", <<"locations", "cities", "{}">>, "get_cities_by_country">>,
       <<"GET", <<"locations", "geocode">>, "geocode_location">>,
       <<"GET", <<"locations", "reverse">>, "reverse_geocode">>,
       <<"GET", <<"locations", "nearest-city">>, "find_nearest_city">>,
       <<"POST", <<"compare", "locations">>, "compare_locations">>,
       <<"GET", <<"compare", "cities">>, "compare_cities">>,
       <<"GET", <<"compare", "timeperiods">>, "compare_time_periods">>,
       <<"GET", <<"aqi", "grid", "custom">>, "get_custom_aqi_grid">>,
       <<"POST", <<"health", "symptoms">>, "log_symptoms">>,
       <<"GET", <<"health", "correlation">>, "get_symptom_correlation">>,
       <<"POST", <<"venues">>, "add_venue">>,
       <<"GET", <<"venues", "risk">>, "get_venues_risk">>,
       <<"POST", <<"reports">>, "submit_report">>,
       <<"GET", <<"reports">>, "get_reports">>,
       <<"GET", <<"impact", "cigarettes">>, "get_cigarette_equivalence">> >>

\* app.include_router(router, prefix): every route of the router, with the
\* prefix before its path.
include_router(router, prefix) ==
    [i \in 1..Len(router) |-> <<router[i][1], prefix \o router[i][2], router[i][3]>>]

\* The HTTP routes of the application: the API under /api, then "/".
routes == include_router(api_router, <<"api">>) \o << <<"GET", <<>>, "root">> >>

\* Does the path of a route match the path of a request.
PathMatches(route_path, path) ==
    /\ Len(route_path) = Len(path)
    /\ \A i \in 1..Len(path) : route_path[i] = "{}" \/ route_path[i] = path[i]

\* root(): the body of "/".
root ==
    [status_code |-> 200,
     message |-> "Welcome to Hyperlocal Air Quality API",
     version |-> "2.0.0",
     websocket |-> "/ws",
     docs |-> "/docs"]

\* The router's dispatch: the first route whose path and method match is
\* called; a path that matches under other methods only is answered 405;
\* no matching path is answered 404.
Dispatch(request) ==
    LET full == { i \in 1..Len(routes) :
                    /\ PathMatches(routes[i][2], request.path)
                    /\ routes[i][1] = request.method }
        partial == { i \in 1..Len(routes) : PathMatches(routes[i][2], request.path) }
    IN IF full # {}
       THEN LET first == CHOOSE i \in full : \A j \in full : i <= j
            IN IF routes[first][3] = "root" THEN root
               ELSE [endpoint |-> routes[first][3]]
       ELSE IF partial # {}
       THEN [status_code |-> 405, detail |-> "Method Not Allowed"]
       ELSE [status_code |-> 404, detail |-> "Not Found"]

\* Requests: every path of the table, and some that are not in it.
RequestPaths ==
    { routes[i][2] : i \in 1..Len(routes) }
        \cup { <<"api", "health">>, <<"health">>, <<"api">>,
               <<"api", "favorites", "home">>, <<"api", "locations", "cities", "India">>,
               <<"aqi", "grid">> }

Requests ==
    { [route |-> "http", method |-> m, path |-> p] :
      m \in {"GET", "POST", "DELETE"}, p \in RequestPaths }

RouteInit ==
    /\ LiveInit
    /\ call \in Requests
    /\ returned = <<>>
    /\ model = "None"
    /\ artifact = FALSE
    /\ clock = 0
    /\ readings_file = <<>>

\* client.get(path) and the like: one request, one response.
HandleRequest ==
    /\ returned = <<>>
    /\ returned' = <<Dispatch(call)>>
    /\ UNCHANGED <<liveVars, call, model, artifact, clock, readings_file>>

RouteNext == HandleRequest

RouteSpec == RouteInit /\ [][RouteNext]_vars

\* C21: a GET request to /api/health is answered with status 200 and a body
\* whose status field is "healthy".
C21_HealthCheckServed ==
    (/\ returned # <<>>
     /\ call.route = "http"
     /\ call.method = "GET"
     /\ call.path = <<"api", "health">>)
        => /\ "status_code" \in DOMAIN returned[1]
           /\ returned[1].status_code = 200
           /\ "status" \in DOMAIN returned[1]
           /\ returned[1].status = "healthy"

----------------------------------------------------------------------------
(* Alerts and statistics of a forecast                                     *)

\* The points above 200, by place in the forecast.
HighPoints(fs) == { p \in 1..Len(fs) : fs[p].aqi > 20000 }

\* The places whose point differs from the next by more than 50.
Jumps(fs) ==
    { i \in 1..(Len(fs) - 1) :
        \/ fs[i + 1].aqi - fs[i].aqi > 5000
        \/ fs[i].aqi - fs[i + 1].aqi > 5000 }

\* The k-th member of a set of places, in increasing order.
Nth(places, k) == CHOOSE p \in places : Cardinality({ j \in places : j <= p }) = k

C25_Statistics ==
    (returned # <<>> /\ call.route = "forecast") =>
        LET fs == returned[1].forecasts
            st == returned[1].statistics
        IN /\ \A i \in 1..48 : st.min_aqi <= fs[i].aqi /\ fs[i].aqi <= st.max_aqi
           /\ \E i \in 1..48 :
                 /\ fs[i].aqi = st.max_aqi
                 /\ fs[i].timestamp = st.worst_hour
                 /\ \A j \in 1..(i - 1) : fs[j].aqi < st.max_aqi
           /\ \E i \in 1..48 :
                 /\ fs[i].aqi = st.min_aqi
                 /\ fs[i].timestamp = st.best_hour
                 /\ \A j \in 1..(i - 1) : fs[j].aqi > st.min_aqi

\* A forecast whose maximum and minimum are each attained at several points,
\* neither at the first nor only at the last.
C25_Witness ==
    /\ returned # <<>>
    /\ call.route = "forecast"
    /\ LET fs == returned[1].forecasts
           st == returned[1].statistics
       IN /\ Cardinality({ i \in 1..48 : fs[i].aqi = st.max_aqi }) >= 2
          /\ Cardinality({ i \in 1..48 : fs[i].aqi = st.min_aqi }) >= 2
          /\ fs[1].aqi # st.max_aqi
          /\ fs[1].aqi # st.min_aqi
          /\ fs[48].aqi # st.max_aqi
          /\ st.worst_hour > returned[1].generated_at
          /\ st.best_hour > returned[1].generated_at

----------------------------------------------------------------------------
(* _estimate_traffic over every hour and day                               *)

TrafficInit ==
    /\ LiveInit
    /\ call = <<>>
    /\ returned = <<>>
    /\ model = "None"
    /\ artifact = FALSE
    /\ clock = 0
    /\ readings_file = <<>>

\* self._estimate_traffic(hour, day_of_week)
EstimateTrafficCall(hour, day_of_week) ==
    /\ call' = [route |-> "traffic", hour |-> hour, day_of_week |-> day_of_week]
    /\ returned' = <<EstimateTraffic(hour, day_of_week)>>
    /\ UNCHANGED <<liveVars, model, artifact, clock, readings_file>>

TrafficNext == \E hour \in 0..23, day_of_week \in 0..6 : EstimateTrafficCall(hour, day_of_week)

TrafficSpec == TrafficInit /\ [][TrafficNext]_vars

\* C26: for every hour and day of week the traffic index is base x multiplier:
\* base 1.0 on days 0..4 and 0.6 on days 5..6; multiplier 1.5 for hours 7..9,
\* 1.6 for hours 17..20, 0.3 for hours 22, 23 and 0..5, 0.8 otherwise (hours 6,
\* 10..16 and 21).  The index is never negative.
C26_TrafficIndex ==
    (returned # <<>> /\ call.route = "traffic") =>
        LET base == IF call.day_of_week \in 0..4 THEN 1000 ELSE 600
            tenths == CASE call.hour \in 7..9 -> 15
                        [] call.hour \in 17..20 -> 16
                        [] call.hour \in {22, 23} \cup 0..5 -> 3
                        [] call.hour \in {6, 21} \cup 10..16 -> 8
        IN /\ 10 * returned[1] = base * tenths
           /\ returned[1] >= 0

\* The estimate for a Saturday evening rush hour, 0.6 x 1.6.
C26_Witness ==
    /\ returned = <<960>>
    /\ call.route = "traffic"
    /\ call.day_of_week = 5
    /\ call.hour = 20

----------------------------------------------------------------------------
(* The data of a scheduler cycle (main.py, broadcast_updates)              *)
(*                                                                         *)
(* main.py holds a PredictionService and a HotspotService; the latter      *)
(* builds a PredictionService of its own, so there are two model fields,   *)
(* kept here in "model" as [prediction_service, hotspot_service].  The     *)
(* messages broadcast in the current cycle are in "returned".              *)

\* The radius, in metres, of the grids of the cycle.  The code calls
\* get_full_grid() without a radius and so works on the 25 km default (9,373
\* cells a grid); the cycle is checked on grids of this radius.
CycleRadius == 1000

CycleInit ==
    /\ LiveInit
    /\ call \in { [route |-> "cycle", err |-> e] : e \in Roundings }
    /\ returned = <<>>
    /\ model = [prediction_service |-> "None", hotspot_service |-> "None"]
    /\ artifact \in BOOLEAN
    /\ clock = 22
    /\ readings_file = <<>>

\* "grid_data = await prediction_service.get_full_grid()" and
\* "await manager.broadcast_aqi_update(grid_data)"; seed fixes the noise that
\* this call draws when the model is the synthetic one.
CycleGrid(seed) ==
    /\ call.route = "cycle"
    /\ returned = <<>>
    /\ LET self == PredictionService(28613900, 77209000, 25000, call.err)
           g == get_full_grid(self, <<>>, <<>>, <<CycleRadius>>, clock,
                              model.prediction_service, artifact, seed, call.err)
       IN /\ returned' = <<[type |-> "aqi_update", timestamp |-> clock,
                            data |-> g.result]>>
          /\ model' = [model EXCEPT !.prediction_service = g.model]
    /\ UNCHANGED <<liveVars, call, artifact, clock, readings_file>>

\* "hotspots = await hotspot_service.get_hotspots()" and
\* "await manager.send_hotspot_update(hotspots)": get_hotspots() calls
\* get_full_grid() on the hotspot service's own prediction service.
CycleHotspots(seed) ==
    /\ call.route = "cycle"
    /\ Len(returned) = 1
    /\ LET self == PredictionService(28613900, 77209000, 25000, call.err)
           g == get_full_grid(self, <<>>, <<>>, <<CycleRadius>>, clock,
                              model.hotspot_service, artifact, seed, call.err)
       IN /\ returned' = Append(returned,
                                [type |-> "hotspot_update", timestamp |-> clock,
                                 data |-> get_hotspots(g.result.grid)])
          /\ model' = [model EXCEPT !.hotspot_service = g.model]
    /\ UNCHANGED <<liveVars, call, artifact, clock, readings_file>>

\* "await asyncio.sleep(300)": the cycle is over, its messages are history.
CycleSleep ==
    /\ call.route = "cycle"
    /\ Len(returned) = 2
    /\ returned' = <<>>
    /\ UNCHANGED <<liveVars, call, model, artifact, clock, readings_file>>

CycleNext ==
    \/ \E seed \in Seeds : CycleGrid(seed)
    \/ \E seed \in Seeds : CycleHotspots(seed)
    \/ CycleSleep
    \/ Tick

CycleSpec == CycleInit /\ [][CycleNext]_vars

\* C27: in each scheduler cycle every hotspot of the cycle's hotspot_update
\* has the lat, lon and aqi of a cell of the grid carried by that cycle's
\* aqi_update, also when the model is the synthetic fallback.
C27_HotspotsFromBroadcastGrid ==
    (call # <<>> /\ call.route = "cycle" /\ Len(returned) = 2) =>
        LET grid == returned[1].data.grid
            hs == returned[2].data.hotspots
        IN \A n \in 1..Len(hs) :
              \E k \in 1..Len(grid) :
                 /\ grid[k].lat = hs[n].lat
                 /\ grid[k].lon = hs[n].lon
                 /\ grid[k].aqi = hs[n].aqi

\* C28: in every forecast point the category is the one the breakpoint table
\* gives for the aqi reported in that point, and every point whose category is
\* Very Unhealthy or Hazardous has a reported aqi > 200 (the threshold of the
\* alert pass).
C28_PointSelfConsistent ==
    (returned # <<>> /\ call # <<>> /\ call.route = "forecast") =>
        \A i \in 1..Len(returned[1].forecasts) :
            LET f == returned[1].forecasts[i]
            IN /\ f.category = TableCategory(f.aqi)
               /\ f.category \in {"Very Unhealthy", "Hazardous"} => f.aqi > 20000

\* C29: a custom-grid request with centre c and radius r > 0 returns cells
\* spanning the box built from r: the first latitude and longitude are the
\* box's lower bounds and every cell lies in
\* [c.lat - r/111, c.lat + r/111) x [c.lon - r/(111 cos), c.lon + r/(111 cos)).
C29_CustomGridCoversRequestedBox ==
    (returned # <<>> /\ call # <<>> /\ call.route = "custom" /\ call.radius_km > 0) =>
        LET grid == returned[1].grid
            box == BoundingBox(call.lat, call.lon, call.radius_km, call.err)
        IN /\ grid # <<>>
           /\ grid[1].lat = box.min_lat
           /\ grid[1].lon = box.min_lon
           /\ \A k \in 1..Len(grid) :
                 /\ box.min_lat <= grid[k].lat /\ grid[k].lat < box.max_lat
                 /\ box.min_lon <= grid[k].lon /\ grid[k].lon < box.max_lon

----------------------------------------------------------------------------
(* The live engine with clients that keep arriving, under fair scheduling  *)

\* A new client opens a websocket after an earlier endpoint coroutine is over
\* and its websocket is in no list any more: a new websocket object, which
\* takes over the number of the old one.
NewClient(c) ==
    /\ HandlerMayRun
    /\ hpc[c] \in {"left", "crashed", "unaccepted"}
    /\ c \notin Range(active_connections)
    /\ c \notin Range(disconnected)
    /\ hpc' = [hpc EXCEPT ![c] = "new"]
    /\ chan' = [chan EXCEPT ![c] = "open"]
    /\ event' = <<"step", 0>>
    /\ UNCHANGED <<active_connections, schedVars, app, passObs, cycleObs, evicted, svcVars>>

FairNext ==
    \/ Next
    \/ \E c \in Conns : NewClient(c)

\* The event loop runs every task that is ready: a sleep that is over ends,
\* the broadcast task takes its next step, a send that has finished resumes,
\* and an endpoint whose accept or receive can return is resumed.
Fairness ==
    /\ WF_vars(DelayDone)
    /\ WF_vars(IntervalDone)
    /\ WF_vars(Check)
    /\ WF_vars(Grid)
    /\ WF_vars(BroadcastAqi)
    /\ WF_vars(Hotspots)
    /\ WF_vars(BroadcastHot)
    /\ WF_vars(BroadcastSend)
    /\ WF_vars(SendResume)
    /\ WF_vars(BroadcastLoopEnd)
    /\ WF_vars(BroadcastCleanUp)
    /\ WF_vars(EndCycle)
    /\ \A c \in Conns : WF_vars(Register(c))
    /\ \A c \in Conns : WF_vars(AcceptFail(c))
    /\ \A c \in Conns : WF_vars(Disconnected(c))

FairSpec == Init /\ [][FairNext]_vars /\ Fairness

\* C30: under fair scheduling, when there is no shutdown, grid and hotspot
\* recomputation never raise, and a connection stays registered with its sends
\* succeeding, that connection receives an aqi_update and a hotspot_update
\* again and again: nothing that other connections do stops its updates for
\* ever.
C30_UpdatesRecur ==
    \A c \in Conns :
        ( /\ [](app = "running" /\ event[1] # "fault")
          /\ <>[](c \in Range(active_connections) /\ chan[c] = "open") )
            => ( /\ []<>(event = <<"aqi_update", c>>)
                 /\ []<>(event = <<"hotspot_update", c>>) )

=========================================================================
